---- MODULE Spec2Model ----
(***************************************************************************)
(* Sales Journal (src/app.js): the in-memory collection `sales`, its       *)
(* mirror in localStorage, the start-up sequence init() (load, migrate,    *)
(* render), the CRUD handlers, rendering and export (Spec), and the        *)
(* functions that only compute, called on their own (CalcSpec).            *)
(*                                                                         *)
(* Conventions of the model                                                *)
(*  - A JavaScript number is kept in fixed point: the integer h stands for *)
(*    the number h/2, so that 1.5 is 3 and 500 is 1000.  Every number a    *)
(*    record holds here is finite.                                         *)
(*  - The text of a form control is a TLA+ string; Number(text) and        *)
(*    text.trim() are the tables NumberOf and Trim over the texts used.    *)
(*  - A value that is '' or a number (costPerUnit) is << >> or << h >>.    *)
(*  - An id is the pair << t, r >>: Date.now() read as t, Math.random()    *)
(*    read as r.                                                           *)
(*  - Text that is searched, trimmed or compared is a TLA+ string taken    *)
(*    character by character (SubSeq, Len, \o).                            *)
(*  - A stored blob is [k, v]: k = "absent" (getItem gives null), "text"   *)
(*    (text JSON.parse rejects), "json" (JSON that is no array: null, a    *)
(*    number, a boolean, an object) or "array" (v is the parsed list).     *)
(***************************************************************************)
EXTENDS Integers, Sequences, FiniteSets, TLC

\* Longest collection the model builds.
MaxSales == 2

\* ── Constants (src/app.js:11-17) ──────────────────────────────────────────
STORAGE_KEY == "toriSalesJournal"
OLD_STORAGE_KEY == "forextodo"
OLD_KEYS_TO_CLEAN == {"forextodo", "forexwins", "forexloss", "trimmed"}
Keys == {STORAGE_KEY} \cup OLD_KEYS_TO_CLEAN

\* Values Date.now() and Math.random() are read as.
Times == {0, 1}
Rands == {0, 1}
IdSpace == Times \X Rands

\* todayISO(): the current calendar date.
Today == "2025-01-02"

VARIABLES
    sales,          \* the collection `sales` (meaningful while salesIsArray)
    salesIsArray,   \* whether `sales` holds an Array
    store,          \* localStorage: key -> blob
    pc,             \* position in init(): start, loaded, merged, migrated; then ready or dead
    now,            \* the last value Date.now() returned
    retired,        \* history: ids of records deleted or reset away that uid() may
                    \* still return (ids of a time the clock has passed are dropped)
    migrateRan,     \* history: migrateOldData was called "never", "once" or "again"
    last            \* the last operation and how it ended

vars == <<sales, salesIsArray, store, pc, now, retired, migrateRan, last>>

\* ── Blobs ─────────────────────────────────────────────────────────────────
Absent == [k |-> "absent", v |-> <<>>]
Garbage == [k |-> "text", v |-> <<>>]
NonArrayJson == [k |-> "json", v |-> <<>>]
SomeText == [k |-> "text", v |-> <<>>]

\* Whether the string getItem returned is truthy: null is not.
Truthy(blob) == blob.k # "absent"

\* JSON.stringify of an Array of plain records of strings and finite numbers.
JsonStringify(list) == [k |-> "array", v |-> list]

\* The value of `last`: the operation, how it ended, and the id it was given.
NoId == <<>>
Outcome(op, res, id) == [op |-> op, res |-> res, id |-> id]

\* ── Helpers ───────────────────────────────────────────────────────────────

\* uid(): Date.now() in base 36 followed by seven digits of Math.random().
Uid(t, r) == <<t, r>>

\* Date.now() never runs backwards: what a call may return after `now`.
ClockReads == {t \in Times : t >= now}

\* History only: the retired ids, among ids, that a uid() call at time t or
\* later may still return.
StillIssuable(ids, t) == {id \in ids : id[1] >= t}

\* Number(text) for the texts of the form controls, in fixed point (h = 2x).
NumberOf(text) ==
    CASE text = "" -> 0
      [] text = "0" -> 0
      [] text = "1" -> 2
      [] text = "1.5" -> 3
      [] text = "-1" -> -2
      [] text = "50" -> 100
      [] text = "200" -> 400
      [] text = "500" -> 1000

\* text.trim()
Trim(text) ==
    CASE text = " Soap " -> "Soap"
      [] text = "   " -> ""
      [] text = " gift " -> "gift"
      [] OTHER -> text

\* parseFloat(x) of a legacy pnl: << >> is NaN, << h >> a number.
ParseFloat(text) ==
    CASE text = "-150" -> <<-300>>
      [] text = "200" -> <<400>>
      [] OTHER -> <<>>

Abs(h) == IF h < 0 THEN -h ELSE h

IsInteger(h) == h % 2 = 0

\* ── Form validation (validateForm) ────────────────────────────────────────

\* What the controls of a form hold; ct = "" when no radio is checked.
\* A number control holds '' or the decimal text of a finite number.
FormA ==
    [date |-> "2025-01-01", ct |-> "new", itemName |-> " Soap ", quantity |-> "1",
     unitPrice |-> "500", costPerUnit |-> "", discount |-> "",
     paymentMethod |-> "cash", notes |-> ""]

FormB ==
    [date |-> "2025-01-02", ct |-> "returning", itemName |-> "Cream", quantity |-> "1.5",
     unitPrice |-> "0", costPerUnit |-> "200", discount |-> "50",
     paymentMethod |-> "transfer", notes |-> " gift "]

Forms ==
    {FormA, FormB,
     [FormA EXCEPT !.date = ""],
     [FormA EXCEPT !.ct = ""],
     [FormA EXCEPT !.itemName = ""],
     [FormA EXCEPT !.itemName = "   "],
     [FormA EXCEPT !.quantity = ""],
     [FormA EXCEPT !.quantity = "0"],
     [FormA EXCEPT !.unitPrice = ""],
     [FormA EXCEPT !.unitPrice = "-1"],
     [FormA EXCEPT !.paymentMethod = ""]}

\* The `valid` flag validateForm computes.
FormValid(f) ==
    /\ f.date # ""
    /\ Trim(f.itemName) # ""
    /\ ~(f.quantity = "" \/ NumberOf(f.quantity) < 2)
    /\ ~(f.unitPrice = "" \/ NumberOf(f.unitPrice) < 0)
    /\ f.paymentMethod # ""
    /\ f.ct # ""

\* The `data` object validateForm builds from a valid form.
FormData(f) ==
    [date |-> f.date,
     customerType |-> f.ct,
     itemName |-> Trim(f.itemName),
     quantity |-> NumberOf(f.quantity),
     unitPrice |-> NumberOf(f.unitPrice),
     costPerUnit |-> IF f.costPerUnit # "" THEN <<NumberOf(f.costPerUnit)>> ELSE <<>>,
     discount |-> NumberOf(f.discount),
     paymentMethod |-> f.paymentMethod,
     notes |-> Trim(f.notes)]

validateForm(f) ==
    [valid |-> FormValid(f), data |-> IF FormValid(f) THEN FormData(f) ELSE <<>>]

\* data.id = id: the record a data object becomes.
WithId(data, id) ==
    [id |-> id,
     date |-> data.date,
     customerType |-> data.customerType,
     itemName |-> data.itemName,
     quantity |-> data.quantity,
     unitPrice |-> data.unitPrice,
     costPerUnit |-> data.costPerUnit,
     discount |-> data.discount,
     paymentMethod |-> data.paymentMethod,
     notes |-> data.notes]

\* ── Legacy records (src/buisness-src/buisness.js) ─────────────────────────

\* What the old journal stored under 'forextodo': launchdate (a non-empty text;
\* "" stands for a missing one), result (null, 'newcustomers' or
\* 'returningcustomers') and pnl ('' or a number; JSON turns a non-finite
\* number into null).
LegacyC == [launchdate |-> "2024-05-01", result |-> "returningcustomers", pnl |-> "-150"]
LegacyN == [launchdate |-> "2025-10-24", result |-> "newcustomers", pnl |-> "200"]
LegacyU == [launchdate |-> "", result |-> "null", pnl |-> ""]

LegacyLists == {<<LegacyC>>, <<LegacyU, LegacyN>>}

\* Mutant: the sign of the pnl is kept.
MigrateItem_SignKept(item, id) ==
    LET pnl == ParseFloat(item.pnl)
        revenue == IF pnl = <<>> THEN 0 ELSE pnl[1]
    IN  [id |-> id,
         date |-> IF item.launchdate # "" THEN item.launchdate ELSE Today,
         customerType |-> IF item.result = "returningcustomers" THEN "returning" ELSE "new",
         itemName |-> "Sale",
         quantity |-> 2,
         unitPrice |-> revenue,
         costPerUnit |-> <<>>,
         discount |-> 0,
         paymentMethod |-> "cash",
         notes |-> "Migrated from old journal"]

\* The record the map callback of migrateOldData returns for one legacy item.
MigrateItem(item, id) ==
    LET pnl == ParseFloat(item.pnl)
        revenue == IF pnl = <<>> THEN 0 ELSE Abs(pnl[1])
    IN  [id |-> id,
         date |-> IF item.launchdate # "" THEN item.launchdate ELSE Today,
         customerType |-> IF item.result = "returningcustomers" THEN "returning" ELSE "new",
         itemName |-> "Sale",
         quantity |-> 2,
         unitPrice |-> revenue,
         costPerUnit |-> <<>>,
         discount |-> 0,
         paymentMethod |-> "cash",
         notes |-> "Migrated from old journal"]

\* ── localStorage ──────────────────────────────────────────────────────────

\* localStorage.setItem(key, blob) / removeItem(key)
SetItem(st, key, blob) == [st EXCEPT ![key] = blob]
RemoveItem(st, key) == [st EXCEPT ![key] = Absent]

\* Mutant: the collection is not written.
saveToLocalStorage_Skipped(st, list) == st

\* saveToLocalStorage(): the store after writing the collection `list`.
saveToLocalStorage(st, list) == SetItem(st, STORAGE_KEY, JsonStringify(list))

\* JSON.parse(raw): whether it returns, and what.
JsonParse(blob) == [ok |-> blob.k # "text", isArray |-> blob.k = "array", v |-> blob.v]

\* loadFromLocalStorage(): `sales` after it ran on a page whose `sales` is cur.
LoadedSales(blob, cur) ==
    IF Truthy(blob)
    THEN IF JsonParse(blob).ok
         THEN [isArray |-> JsonParse(blob).isArray, recs |-> JsonParse(blob).v]
         ELSE [isArray |-> TRUE, recs |-> <<>>]
    ELSE cur

\* let sales = [] of a fresh page
FreshSales == [isArray |-> TRUE, recs |-> <<>>]

\* ── Values of a parsed record ─────────────────────────────────────────────

\* What a field of a record read back from JSON may hold, as the metric
\* functions see it: a number (n, in fixed point), a string (s) or null; a
\* field the object lacks reads as undefined.
Num(h) == [t |-> "number", n |-> h, s |-> ""]
Str(text) == [t |-> "string", n |-> 0, s |-> text]
Null == [t |-> "null", n |-> 0, s |-> ""]
Undefined == [t |-> "undefined", n |-> 0, s |-> ""]

\* sale[key]
Get(sale, key) == IF key \in DOMAIN sale THEN sale[key] ELSE Undefined

\* The texts Number() turns into a finite number; any other text gives NaN.
NumericTexts == {"", "0", "1", "1.5", "-1", "50", "200", "500"}

\* Number(v): << >> is NaN, << h >> a number.
ToNumber(v) ==
    CASE v.t = "number" -> <<v.n>>
      [] v.t = "null" -> <<0>>
      [] v.t = "undefined" -> <<>>
      [] v.t = "string" -> IF v.s \in NumericTexts THEN <<NumberOf(v.s)>> ELSE <<>>

\* Number(v) || 0
NumberOrZero(v) == IF ToNumber(v) = <<>> THEN 0 ELSE ToNumber(v)[1]

\* a * b in fixed point (exact for the values of the model: one factor whole).
Mul(a, b) == (a * b) \div 2

\* A record of the collection as the object JSON.parse gives back.
AsObject(rec) ==
    [id |-> rec.id,
     date |-> rec.date,
     customerType |-> rec.customerType,
     itemName |-> rec.itemName,
     quantity |-> Num(rec.quantity),
     unitPrice |-> Num(rec.unitPrice),
     costPerUnit |-> IF rec.costPerUnit = <<>> THEN Str("") ELSE Num(rec.costPerUnit[1]),
     discount |-> Num(rec.discount),
     paymentMethod |-> rec.paymentMethod,
     notes |-> rec.notes]

\* ── Metrics (lineRevenue, lineProfit) ─────────────────────────────────────

lineRevenue(sale) ==
    LET qty == NumberOrZero(Get(sale, "quantity"))
        price == NumberOrZero(Get(sale, "unitPrice"))
        disc == NumberOrZero(Get(sale, "discount"))
    IN  Mul(qty, price) - disc

\* Mutant: the discount is not taken off when a cost is given.
lineProfit_DiscountDropped(sale) ==
    LET qty == NumberOrZero(Get(sale, "quantity"))
        price == NumberOrZero(Get(sale, "unitPrice"))
        c == Get(sale, "costPerUnit")
        cost == ToNumber(c)
    IN  IF /\ cost # <<>>
           /\ ~(c.t = "string" /\ c.s = "")
           /\ c.t # "null"
           /\ c.t # "undefined"
        THEN Mul(qty, price - cost[1])
        ELSE lineRevenue(sale)

lineProfit(sale) ==
    LET qty == NumberOrZero(Get(sale, "quantity"))
        price == NumberOrZero(Get(sale, "unitPrice"))
        c == Get(sale, "costPerUnit")
        cost == ToNumber(c)
        disc == NumberOrZero(Get(sale, "discount"))
    IN  IF /\ cost # <<>>
           /\ ~(c.t = "string" /\ c.s = "")
           /\ c.t # "null"
           /\ c.t # "undefined"
        THEN Mul(qty, price - cost[1]) - disc
        ELSE lineRevenue(sale)

\* ── Text ──────────────────────────────────────────────────────────────────

\* The code unit of a character of a date text.
CharCode(c) ==
    CASE c = "-" -> 45
      [] c = "0" -> 48 [] c = "1" -> 49 [] c = "2" -> 50 [] c = "3" -> 51
      [] c = "4" -> 52 [] c = "5" -> 53 [] c = "6" -> 54 [] c = "7" -> 55
      [] c = "8" -> 56 [] c = "9" -> 57

RECURSIVE StrLess(_, _)
\* a < b on two strings: by code units, a proper prefix first.
StrLess(a, b) ==
    IF b = "" THEN FALSE
    ELSE IF a = "" THEN TRUE
    ELSE IF SubSeq(a, 1, 1) # SubSeq(b, 1, 1)
         THEN CharCode(SubSeq(a, 1, 1)) < CharCode(SubSeq(b, 1, 1))
         ELSE StrLess(SubSeq(a, 2, Len(a)), SubSeq(b, 2, Len(b)))

\* One character lower-cased.
LowerChar(c) ==
    CASE c = "A" -> "a" [] c = "B" -> "b" [] c = "C" -> "c" [] c = "D" -> "d"
      [] c = "E" -> "e" [] c = "F" -> "f" [] c = "G" -> "g" [] c = "H" -> "h"
      [] c = "I" -> "i" [] c = "J" -> "j" [] c = "K" -> "k" [] c = "L" -> "l"
      [] c = "M" -> "m" [] c = "N" -> "n" [] c = "O" -> "o" [] c = "P" -> "p"
      [] c = "Q" -> "q" [] c = "R" -> "r" [] c = "S" -> "s" [] c = "T" -> "t"
      [] c = "U" -> "u" [] c = "V" -> "v" [] c = "W" -> "w" [] c = "X" -> "x"
      [] c = "Y" -> "y" [] c = "Z" -> "z"
      [] OTHER -> c

RECURSIVE ToLowerCase(_)
\* text.toLowerCase()
ToLowerCase(text) ==
    IF text = "" THEN ""
    ELSE LowerChar(SubSeq(text, 1, 1)) \o ToLowerCase(SubSeq(text, 2, Len(text)))

RECURSIVE TrimStart(_)
TrimStart(text) ==
    IF text # "" /\ SubSeq(text, 1, 1) = " "
    THEN TrimStart(SubSeq(text, 2, Len(text)))
    ELSE text

RECURSIVE TrimEnd(_)
TrimEnd(text) ==
    IF text # "" /\ SubSeq(text, Len(text), Len(text)) = " "
    THEN TrimEnd(SubSeq(text, 1, Len(text) - 1))
    ELSE text

\* text.trim() of a filter control (blanks are the only white space typed).
TrimText(text) == TrimEnd(TrimStart(text))

\* Where needle starts in hay, counted from 1, for a needle that occurs.
Occurrences(hay, needle) ==
    {i \in 1..(Len(hay) - Len(needle) + 1) :
        SubSeq(hay, i, i + Len(needle) - 1) = needle}

\* hay.indexOf(needle): the first place, counted from 0, or -1.
IndexOf(hay, needle) ==
    IF Occurrences(hay, needle) = {} THEN -1
    ELSE (CHOOSE i \in Occurrences(hay, needle) :
            \A j \in Occurrences(hay, needle) : i <= j) - 1

\* ── Filters (getFilters, applyFilters) ────────────────────────────────────

\* getFilters(): the criteria read from the five filter controls.
getFilters(controls) ==
    [dateFrom |-> controls.dateFrom,
     dateTo |-> controls.dateTo,
     customerType |-> controls.customerType,
     payment |-> controls.payment,
     search |-> TrimText(ToLowerCase(controls.search))]

\* sale.itemName || '' for a text or a missing field.
OrEmpty(sale, key) == IF key \in DOMAIN sale THEN sale[key] ELSE ""

\* Mutant: the lower bound taken as exclusive.
DateInRange_FromExclusive(sale, f) ==
    /\ ~(f.dateFrom # "" /\ ~StrLess(f.dateFrom, sale.date))
    /\ ~(f.dateTo # "" /\ StrLess(f.dateTo, sale.date))

\* Lines 167-168 of the filter callback: neither date test returns false.
DateInRange(sale, f) ==
    /\ ~(f.dateFrom # "" /\ StrLess(sale.date, f.dateFrom))
    /\ ~(f.dateTo # "" /\ StrLess(f.dateTo, sale.date))

\* Mutant: the record's text is searched as it is written.
Haystack_CaseKept(sale) == OrEmpty(sale, "itemName") \o " " \o OrEmpty(sale, "notes")

\* Line 175: the text the search looks in.
Haystack(sale) ==
    ToLowerCase(OrEmpty(sale, "itemName") \o " " \o OrEmpty(sale, "notes"))

\* Lines 174-177: the text search does not return false.
SearchKeeps(sale, f) ==
    f.search # "" => IndexOf(Haystack(sale), f.search) # -1

\* The filter callback of applyFilters returns true for sale.
Keeps(sale, f) ==
    /\ DateInRange(sale, f)
    /\ ~(f.customerType # "all" /\ sale.customerType # f.customerType)
    /\ ~(f.payment # "all" /\ sale.paymentMethod # f.payment)
    /\ SearchKeeps(sale, f)

\* applyFilters(data) with the filter controls holding `controls`.
applyFilters(data, controls) ==
    LET f == getFilters(controls)
    IN  SelectSeq(data, LAMBDA sale : Keeps(sale, f))

\* What the five filter controls may hold.  The two selects offer 'all' and
\* the values of the forms; a date control holds '' or a date.
DateControls == {"", "2025-01-01", "2025-01-02"}
SearchControls == {"", "   ", " SoAP ", "pg", "p g"}
AllControls ==
    [dateFrom : DateControls,
     dateTo : DateControls,
     customerType : {"all", "new", "returning"},
     payment : {"all", "cash", "transfer"},
     search : SearchControls]

\* The controls as clearFilters (and a fresh page) leaves them.
DefaultControls ==
    [dateFrom |-> "", dateTo |-> "", customerType |-> "all", payment |-> "all",
     search |-> ""]

\* The settings of the controls the handlers of the page are run under.
ShownControls ==
    {DefaultControls,
     [DefaultControls EXCEPT !.dateFrom = "2025-01-02", !.payment = "transfer"],
     [DefaultControls EXCEPT !.customerType = "new", !.search = " SoAP "]}

\* ── Summary (calculateSummary, calculateTodaySummary) ─────────────────────

RECURSIVE SumOver(_)
\* The running total `total += amount` of a forEach, from 0, over the
\* amounts of the records in their order.
SumOver(amounts) ==
    IF amounts = <<>> THEN 0
    ELSE SumOver(SubSeq(amounts, 1, Len(amounts) - 1)) + amounts[Len(amounts)]

\* Mutant: only 'returning' is counted as returning.
RetCount_OnlyReturning(filtered) ==
    Len(SelectSeq(filtered, LAMBDA s : s.customerType = "returning"))

\* retCount: the else branch of line 198.
RetCount(filtered) ==
    Len(SelectSeq(filtered, LAMBDA s : s.customerType # "new"))

calculateSummary(filtered) ==
    [totalRev |-> SumOver([i \in 1..Len(filtered) |-> lineRevenue(filtered[i])]),
     totalProf |-> SumOver([i \in 1..Len(filtered) |-> lineProfit(filtered[i])]),
     newCount |-> Len(SelectSeq(filtered, LAMBDA s : s.customerType = "new")),
     retCount |-> RetCount(filtered)]

\* calculateTodaySummary() over the collection list.
calculateTodaySummary(list) ==
    calculateSummary(SelectSeq(list, LAMBDA s : s.date = Today))

\* ── Rendering (renderSalesList's sort) ────────────────────────────────────

\* String(b) > String(a) for two ids: the time part, then the random digits.
IdGreater(b, a) == b[1] > a[1] \/ (b[1] = a[1] /\ b[2] > a[2])

\* The compare function of filtered.sort (lines 228-231); it never returns 0.
Compare(a, b) ==
    IF b.date # a.date
    THEN IF StrLess(a.date, b.date) THEN 1 ELSE -1
    ELSE IF IdGreater(b.id, a.id) THEN 1 ELSE -1

\* Every pair of list stands in the order Compare asks for (two records of
\* one date and id may stand either way round).
InOrder(list) ==
    \A i, j \in 1..Len(list) : i < j => Compare(list[i], list[j]) < 0

\* The orders filtered.sort may leave.
SortOutcomes(list) ==
    {sorted \in {[i \in 1..Len(list) |-> list[q[i]]] :
                    q \in {r \in [1..Len(list) -> 1..Len(list)] :
                            \A i, j \in 1..Len(list) : r[i] = r[j] => i = j}} :
        InOrder(sorted)}

\* Mutant: the list is handed back itself when every record is kept.
FilterSharesArray_WhenAllKept(data, controls) == applyFilters(data, controls) = data

\* Whether the Array applyFilters returns is `data` itself: Array.filter
\* always makes a new one.
FilterSharesArray(data, controls) == FALSE

\* What renderAll() may leave in `list`: renderSalesList sorts the filtered
\* Array in place, which reorders `list` only if they are one Array.
AfterRender(list, controls) ==
    IF FilterSharesArray(list, controls)
    THEN SortOutcomes(applyFilters(list, controls))
    ELSE {list}

\* The same under any setting of the controls.
AfterRenderAny(list) == UNION {AfterRender(list, controls) : controls \in ShownControls}

\* ── Init ──────────────────────────────────────────────────────────────────

\* A record an earlier session stored, its id drawn at an earlier time.
EarlierId == <<-1, 0>>
EarlierRecord == WithId(FormData(FormA), EarlierId)
AllIds == IdSpace \cup {EarlierId}

SalesBlobs == {Absent, Garbage, NonArrayJson, JsonStringify(<<EarlierRecord>>)}
OldBlobs ==
    {Absent, Garbage, NonArrayJson, JsonStringify(<<>>)}
        \cup {JsonStringify(l) : l \in LegacyLists}

\* The old journal wrote its other keys along with 'forextodo'.
InitStores ==
    {[key \in Keys |->
        IF key = STORAGE_KEY THEN b
        ELSE IF key = OLD_STORAGE_KEY THEN o
        ELSE IF Truthy(o) THEN SomeText ELSE Absent] :
            b \in SalesBlobs, o \in OldBlobs}

Init ==
    /\ sales = <<>>
    /\ salesIsArray = TRUE
    /\ store \in {st \in InitStores :
                    Len(st[STORAGE_KEY].v) + Len(st[OLD_STORAGE_KEY].v) <= MaxSales}
    /\ pc = "start"
    /\ now = 0
    /\ retired = {}
    /\ migrateRan = "never"
    /\ last = Outcome("none", "ok", NoId)

\* ── init(): loadFromLocalStorage, migrateOldData, bindEvents, renderAll ───

LoadFromLocalStorage ==
    /\ pc = "start"
    /\ LET got == LoadedSales(store[STORAGE_KEY], [isArray |-> salesIsArray, recs |-> sales])
       IN  /\ sales' = got.recs
           /\ salesIsArray' = got.isArray
    /\ pc' = "loaded"
    /\ last' = Outcome("loadFromLocalStorage", "ok", NoId)
    /\ UNCHANGED <<store, now, retired, migrateRan>>

\* Whether migrateOldData gets past its early returns (lines 93-98).
HasLegacyData(st) ==
    /\ Truthy(st[OLD_STORAGE_KEY])
    /\ JsonParse(st[OLD_STORAGE_KEY]).ok
    /\ JsonParse(st[OLD_STORAGE_KEY]).isArray
    /\ Len(JsonParse(st[OLD_STORAGE_KEY]).v) # 0

\* The ids uid() may give to n records made in a row.
UidRuns(n) ==
    {ids \in [1..n -> IdSpace] :
        /\ \A i \in 1..n : ids[i][1] \in ClockReads
        /\ \A i \in 1..(n - 1) : ids[i][1] <= ids[i + 1][1]}

\* oldData.map(...): one record per legacy item.
Migrated(oldData, ids) == [i \in 1..Len(oldData) |-> MigrateItem(oldData[i], ids[i])]

\* migrateOldData up to saveToLocalStorage (lines 93-122).  sales.concat
\* throws when `sales` is no Array, and init() ends there.
MigrateOldData ==
    /\ pc = "loaded"
    /\ migrateRan' = IF migrateRan = "never" THEN "once" ELSE "again"
    /\ IF ~HasLegacyData(store)
       THEN /\ pc' = "migrated"
            /\ last' = Outcome("migrateOldData", "nothing", NoId)
            /\ UNCHANGED <<sales, salesIsArray, store, now, retired>>
       ELSE LET oldData == JsonParse(store[OLD_STORAGE_KEY]).v
            IN  /\ Len(sales) + Len(oldData) <= MaxSales
                /\ \E ids \in UidRuns(Len(oldData)) :
                     /\ now' = ids[Len(oldData)][1]
                     /\ retired' = StillIssuable(retired, now')
                     /\ IF salesIsArray
                        THEN /\ sales' = sales \o Migrated(oldData, ids)
                             /\ store' = saveToLocalStorage(store, sales')
                             /\ pc' = "merged"
                             /\ last' = Outcome("migrateOldData", "saved", NoId)
                        ELSE /\ pc' = "dead"
                             /\ last' = Outcome("migrateOldData", "throw", NoId)
                             /\ UNCHANGED <<sales, store>>
                /\ UNCHANGED salesIsArray

\* Mutant: 'forextodo' is missing from the keys to clean.
CleanedUp_KeepsForextodo(st) ==
    [key \in Keys |->
        IF key \in OLD_KEYS_TO_CLEAN \ {OLD_STORAGE_KEY} THEN Absent ELSE st[key]]

\* Mutant: only 'forextodo' is removed.
CleanedUp_OnlyForextodo(st) ==
    [key \in Keys |-> IF key = OLD_STORAGE_KEY THEN Absent ELSE st[key]]

\* The store after OLD_KEYS_TO_CLEAN.forEach(removeItem).
CleanedUp(st) == [key \in Keys |-> IF key \in OLD_KEYS_TO_CLEAN THEN Absent ELSE st[key]]

\* migrateOldData from the clean-up on (lines 125-129).
MigrateCleanup ==
    /\ pc = "merged"
    /\ store' = CleanedUp(store)
    /\ pc' = "migrated"
    /\ last' = Outcome("migrateOldData", "migrated", NoId)
    /\ UNCHANGED <<sales, salesIsArray, now, retired, migrateRan>>

\* renderAll(): applyFilters(sales) calls sales.filter, which throws when
\* `sales` is no Array.
RenderThrows == ~salesIsArray

\* The rest of init(): bindEvents(), then renderAll() under the controls of a
\* fresh page.
InitRender ==
    /\ pc = "migrated"
    /\ pc' = "ready"
    /\ IF RenderThrows
       THEN UNCHANGED sales
       ELSE sales' \in AfterRender(sales, DefaultControls)
    /\ last' = Outcome("init", IF RenderThrows THEN "throw" ELSE "ok", NoId)
    /\ UNCHANGED <<salesIsArray, store, now, retired, migrateRan>>

\* The page is opened again: a fresh `sales`, the same store.
Reload ==
    /\ pc \in {"ready", "dead"}
    /\ sales' = FreshSales.recs
    /\ salesIsArray' = FreshSales.isArray
    /\ pc' = "start"
    /\ last' = Outcome("reload", "ok", NoId)
    /\ UNCHANGED <<store, now, retired, migrateRan>>

\* ── CRUD operations ───────────────────────────────────────────────────────

IdsOf(list) == {list[i].id : i \in 1..Len(list)}

\* sales.push(data) after data.id = id
Pushed(list, data, id) == Append(list, WithId(data, id))

\* Mutant: a missing id is taken for the first record.
FindIndex_FirstWhenMissing(list, id) ==
    IF id \in IdsOf(list)
    THEN CHOOSE i \in 1..Len(list) :
            /\ list[i].id = id
            /\ \A j \in 1..(i - 1) : list[j].id # id
    ELSE IF list = <<>> THEN 0 ELSE 1

\* sales.findIndex(s => s.id === id): the first match, 0 for -1.
FindIndex(list, id) ==
    IF id \in IdsOf(list)
    THEN CHOOSE i \in 1..Len(list) :
            /\ list[i].id = id
            /\ \A j \in 1..(i - 1) : list[j].id # id
    ELSE 0

\* Mutant: a patch that keeps the old notes and payment method.
Replaced_AsPatch(list, idx, data, id) ==
    [list EXCEPT ![idx] = [WithId(data, id) EXCEPT !.notes = list[idx].notes,
                                                   !.paymentMethod = list[idx].paymentMethod]]

\* sales[idx] = data after data.id = id
Replaced(list, idx, data, id) == [list EXCEPT ![idx] = WithId(data, id)]

\* Mutant: the comparison inverted (=== for !==).
Filtered_Inverted(list, id) == SelectSeq(list, LAMBDA s : s.id = id)

\* sales.filter(s => s.id !== id)
Filtered(list, id) == SelectSeq(list, LAMBDA s : s.id # id)

\* The ids a handler is given: the id of each record of the collection, and one
\* id that matches none (the code only compares ids, so one stands for all).
ArgIds(list) ==
    IdsOf(list) \cup
        (IF AllIds \ IdsOf(list) = {} THEN {}
         ELSE {CHOOSE id \in AllIds \ IdsOf(list) : TRUE})

\* The saleForm submit handler: validateForm(''), then addSale(result.data):
\* push, save, renderAll.  sales.push throws when `sales` is no Array (after
\* uid() was called).
SaleFormSubmit ==
    /\ pc = "ready"
    /\ \E f \in Forms :
         IF ~validateForm(f).valid
         THEN /\ last' = Outcome("saleFormSubmit", "invalid", NoId)
              /\ UNCHANGED <<sales, store, now, retired>>
         ELSE \E t \in ClockReads, r \in Rands :
                /\ now' = t
                /\ retired' = StillIssuable(retired, t)
                /\ IF salesIsArray
                   THEN /\ Len(sales) < MaxSales
                        /\ LET pushed == Pushed(sales, validateForm(f).data, Uid(t, r))
                           IN  /\ store' = saveToLocalStorage(store, pushed)
                               /\ sales' \in AfterRenderAny(pushed)
                        /\ last' = Outcome("saleFormSubmit", "added", NoId)
                   ELSE /\ last' = Outcome("saleFormSubmit", "throw", NoId)
                        /\ UNCHANGED <<sales, store>>
    /\ UNCHANGED <<salesIsArray, pc, migrateRan>>

\* The editForm submit handler: validateForm('edit'), then updateSale(id, data)
\* with the id the hidden control #editId holds: replace, save, renderAll.
\* sales.findIndex throws when `sales` is no Array.
EditFormSubmit ==
    /\ pc = "ready"
    /\ \E f \in Forms :
         IF ~validateForm(f).valid
         THEN /\ last' = Outcome("editFormSubmit", "invalid", NoId)
              /\ UNCHANGED <<sales, store>>
         ELSE IF ~salesIsArray
              THEN /\ last' = Outcome("editFormSubmit", "throw", NoId)
                   /\ UNCHANGED <<sales, store>>
              ELSE \E id \in ArgIds(sales) :
                     IF FindIndex(sales, id) = 0
                     THEN /\ last' = Outcome("editFormSubmit", "notfound", id)
                          /\ UNCHANGED <<sales, store>>
                     ELSE LET replaced == Replaced(sales, FindIndex(sales, id),
                                                   validateForm(f).data, id)
                          IN  /\ store' = saveToLocalStorage(store, replaced)
                              /\ sales' \in AfterRenderAny(replaced)
                          /\ last' = Outcome("editFormSubmit", "updated", id)
    /\ UNCHANGED <<salesIsArray, pc, now, retired, migrateRan>>

\* A click on a delete button: confirm(), then deleteSale(id): filter, save,
\* renderAll; nothing runs when the dialog is declined.  sales.filter throws
\* when `sales` is no Array.
DeleteSale ==
    /\ pc = "ready"
    /\ \E confirmed \in BOOLEAN :
         IF ~confirmed
         THEN UNCHANGED <<sales, store, retired, last>>
         ELSE IF ~salesIsArray
              THEN /\ last' = Outcome("deleteSale", "throw", NoId)
                   /\ UNCHANGED <<sales, store, retired>>
              ELSE \E id \in ArgIds(sales) :
                     /\ store' = saveToLocalStorage(store, Filtered(sales, id))
                     /\ sales' \in AfterRenderAny(Filtered(sales, id))
                     /\ retired' = StillIssuable(retired \cup ({id} \cap IdsOf(sales)), now)
                     /\ last' = Outcome("deleteSale",
                                        IF id \in IdsOf(sales) THEN "removed" ELSE "nomatch",
                                        id)
    /\ UNCHANGED <<salesIsArray, pc, now, migrateRan>>

\* resetAllData(): two confirm() dialogs (declining either returns at once),
\* then sales = [], removeItem and renderAll.
ResetAllData ==
    /\ pc = "ready"
    /\ \E first \in BOOLEAN, second \in BOOLEAN :
         IF ~(first /\ second)
         THEN UNCHANGED <<sales, salesIsArray, store, retired, last>>
         ELSE /\ sales' \in AfterRenderAny(<<>>)
              /\ salesIsArray' = TRUE
              /\ store' = RemoveItem(store, STORAGE_KEY)
              /\ retired' = StillIssuable(retired \cup IdsOf(sales), now)
              /\ last' = Outcome("resetAllData", "reset", NoId)
    /\ UNCHANGED <<pc, now, migrateRan>>

\* How a render of the filtered list ends: the empty state is shown, or the
\* list, which the sort may have had to reorder.
Shown(filtered) ==
    IF filtered = <<>> THEN "empty"
    ELSE IF InOrder(filtered) THEN "ok" ELSE "sorted"

\* A filter control changes: renderAll(), which is applyFilters(sales),
\* renderSummary (calculateSummary and calculateTodaySummary) and
\* renderSalesList (the sort).
RenderAll ==
    /\ pc = "ready"
    /\ IF RenderThrows
       THEN /\ last' = Outcome("renderAll", "throw", NoId)
            /\ UNCHANGED sales
       ELSE \E controls \in ShownControls :
              /\ sales' \in AfterRender(sales, controls)
              /\ last' = Outcome("renderAll", Shown(applyFilters(sales, controls)), NoId)
    /\ UNCHANGED <<salesIsArray, store, pc, now, retired, migrateRan>>

\* A click on Export CSV: exportCSV(), which is applyFilters(sales), an alert
\* when nothing is left, else one row per record (with lineRevenue and
\* lineProfit) handed to the browser as a download.
ExportCSV ==
    /\ pc = "ready"
    /\ IF ~salesIsArray
       THEN last' = Outcome("exportCSV", "throw", NoId)
       ELSE \E controls \in ShownControls :
              last' = Outcome("exportCSV",
                              IF applyFilters(sales, controls) = <<>>
                              THEN "nothing" ELSE "exported", NoId)
    /\ UNCHANGED <<sales, salesIsArray, store, pc, now, retired, migrateRan>>

Next ==
    \/ LoadFromLocalStorage
    \/ MigrateOldData
    \/ MigrateCleanup
    \/ InitRender
    \/ Reload
    \/ SaleFormSubmit
    \/ EditFormSubmit
    \/ DeleteSale
    \/ ResetAllData
    \/ RenderAll
    \/ ExportCSV

Spec == Init /\ [][Next]_vars

\* ── The functions on their own ────────────────────────────────────────────
\* CalcSpec calls the functions that only compute (the map of migrateOldData,
\* lineRevenue, lineProfit, applyFilters, calculateSummary) on
\* records as JSON.parse may hand them over, fields of the wrong kind or
\* missing included.  `sales` holds the list they are given (pc tells whether
\* of records or of legacy items), and `last` what was called (op), with
\* which argument (id) and what it returned (res).

Returned(fn, arg, value) == Outcome(fn, value, arg)

\* Scenario A and B of the journal: two units of soap at 500, a cost of 200.
SoapObject ==
    [id |-> <<0, 0>>, date |-> "2025-01-01", customerType |-> "new",
     itemName |-> "Soap", quantity |-> Num(4), unitPrice |-> Num(1000),
     costPerUnit |-> Num(400), discount |-> Num(0), paymentMethod |-> "cash",
     notes |-> "gift"]

\* Numbers kept as text.
TextObject ==
    [id |-> <<1, 0>>, date |-> "2025-01-02", customerType |-> "returning",
     itemName |-> "CREAM", quantity |-> Str("1.5"), unitPrice |-> Str("500"),
     costPerUnit |-> Str("200"), discount |-> Str("50"), paymentMethod |-> "transfer",
     notes |-> "with SOAP"]

\* Fields missing (itemName, unitPrice, costPerUnit, discount, notes), a
\* customer type and a payment method the forms do not offer.
BareObject ==
    [id |-> <<1, 1>>, date |-> "2025-01-02", customerType |-> "vip",
     quantity |-> Num(4), paymentMethod |-> "pos"]

\* A cost that is no number, and a discount.
OddCostObject ==
    [id |-> <<0, 1>>, date |-> "2024-05-01", customerType |-> "new",
     itemName |-> "Sale", quantity |-> Num(2), unitPrice |-> Num(1000),
     costPerUnit |-> Str("abc"), discount |-> Num(100), paymentMethod |-> "cash",
     notes |-> ""]

\* A null cost, a quantity and a discount that are no numbers.
NullCostObject ==
    [id |-> <<1, 1>>, date |-> "2025-10-24", customerType |-> "returning",
     itemName |-> "soap dish", quantity |-> Str("abc"), unitPrice |-> Num(1000),
     costPerUnit |-> Null, discount |-> Str("abc"), paymentMethod |-> "cash"]

\* The records of the two forms, the second with a cost of 0.
CalcObjects ==
    {SoapObject, TextObject, BareObject, OddCostObject, NullCostObject,
     AsObject(WithId(FormData(FormA), EarlierId)),
     [AsObject(WithId(FormData(FormB), <<0, 0>>)) EXCEPT !.costPerUnit = Num(0)]}

\* Scenario C as the journal's description spells it, and an item with
\* nothing but a pnl that is no number.
LegacyCamel == [launchDate |-> "2024-05-01", result |-> "returningcustomers", pnl |-> "-150"]
LegacyBare == [pnl |-> "abc"]
LegacyObjects == {LegacyC, LegacyN, LegacyU, LegacyCamel, LegacyBare}

\* What the map callback reads off an item: item.launchdate, item.result and
\* item.pnl, a key the item lacks reading as undefined.
ReadLegacy(obj) ==
    [launchdate |-> OrEmpty(obj, "launchdate"),
     result |-> IF "result" \in DOMAIN obj THEN obj.result ELSE "null",
     pnl |-> OrEmpty(obj, "pnl")]

RECURSIVE ListsUpTo(_, _)
\* The lists of at most n members of S.
ListsUpTo(S, n) ==
    IF n = 0 THEN {<<>>}
    ELSE ListsUpTo(S, n - 1) \cup
            {Append(l, x) : l \in {m \in ListsUpTo(S, n - 1) : Len(m) = n - 1}, x \in S}

CalcInit ==
    /\ \/ pc = "records" /\ sales \in ListsUpTo(CalcObjects, MaxSales)
       \/ pc = "legacy" /\ sales \in ListsUpTo(LegacyObjects, MaxSales)
    /\ salesIsArray = TRUE
    /\ store = [key \in Keys |-> Absent]
    /\ now = 0
    /\ retired = {}
    /\ migrateRan = "never"
    /\ last = Outcome("none", "ok", NoId)

\* One call is made on each input.
NothingCalled == last.op = "none"

\* oldData.map(...) of migrateOldData on a parsed list of legacy items.
CallMigrate ==
    /\ NothingCalled
    /\ pc = "legacy"
    /\ \E ids \in UidRuns(Len(sales)) :
         last' = Returned("migrate", sales,
                          Migrated([i \in 1..Len(sales) |-> ReadLegacy(sales[i])], ids))
    /\ UNCHANGED <<sales, salesIsArray, store, pc, now, retired, migrateRan>>

CallLineRevenue ==
    /\ NothingCalled
    /\ pc = "records"
    /\ \E i \in 1..Len(sales) :
         last' = Returned("lineRevenue", sales[i], lineRevenue(sales[i]))
    /\ UNCHANGED <<sales, salesIsArray, store, pc, now, retired, migrateRan>>

CallLineProfit ==
    /\ NothingCalled
    /\ pc = "records"
    /\ \E i \in 1..Len(sales) :
         last' = Returned("lineProfit", sales[i], lineProfit(sales[i]))
    /\ UNCHANGED <<sales, salesIsArray, store, pc, now, retired, migrateRan>>

CallApplyFilters ==
    /\ NothingCalled
    /\ pc = "records"
    /\ \E controls \in AllControls :
         last' = Returned("applyFilters", controls, applyFilters(sales, controls))
    /\ UNCHANGED <<sales, salesIsArray, store, pc, now, retired, migrateRan>>

CallCalculateSummary ==
    /\ NothingCalled
    /\ pc = "records"
    /\ last' = Returned("calculateSummary", sales, calculateSummary(sales))
    /\ UNCHANGED <<sales, salesIsArray, store, pc, now, retired, migrateRan>>

CallCalculateTodaySummary ==
    /\ NothingCalled
    /\ pc = "records"
    /\ last' = Returned("calculateTodaySummary", sales, calculateTodaySummary(sales))
    /\ UNCHANGED <<sales, salesIsArray, store, pc, now, retired, migrateRan>>

CalcNext ==
    \/ CallMigrate
    \/ CallLineRevenue
    \/ CallLineProfit
    \/ CallApplyFilters
    \/ CallCalculateSummary
    \/ CallCalculateTodaySummary

CalcSpec == CalcInit /\ [][CalcNext]_vars

\* ══ Claims ════════════════════════════════════════════════════════════════

\* The step just taken ran the operation op (a declined dialog runs nothing).
Ran(op) == last'.op = op /\ vars' # vars

NoTwoShareAnId(list) ==
    \A i, j \in 1..Len(list) : list[i].id = list[j].id => i = j

\* C1: in every reachable state no two records of `sales` share an id, and no
\* record of `sales` carries the id of a record that was deleted before it was
\* created.
C1_IdsUniqueNeverReused ==
    salesIsArray =>
        /\ NoTwoShareAnId(sales)
        /\ \A i \in 1..Len(sales) : sales[i].id \notin retired

\* What loadFromLocalStorage would make of the stored blob on a fresh page.
Reloaded == LoadedSales(store[STORAGE_KEY], FreshSales)

\* C2: between operations (once loadFromLocalStorage has run) loading the blob
\* under the sales key gives the in-memory collection; an absent blob gives
\* the empty collection.
C2_StoreMirrorsCollection ==
    pc # "start" => Reloaded = [isArray |-> salesIsArray, recs |-> sales]

\* C2 witness: a delete has removed a record, records remain, and the blob
\* holds exactly them.
C2_Witness ==
    /\ last.op = "deleteSale"
    /\ last.res = "removed"
    /\ Len(sales) >= 1
    /\ store[STORAGE_KEY].k = "array"
    /\ store[STORAGE_KEY].v = sales

\* The required-field constraints of a Sale Record.
RecordOk(s) ==
    /\ s.id # NoId
    /\ s.date # ""
    /\ s.customerType \in {"new", "returning"}
    /\ s.itemName # ""
    /\ IsInteger(s.quantity)
    /\ s.quantity >= 2
    /\ s.unitPrice >= 0
    /\ s.paymentMethod # ""

AllRecordsOk ==
    /\ salesIsArray => \A i \in 1..Len(sales) : RecordOk(sales[i])
    /\ store[STORAGE_KEY].k = "array" =>
         \A i \in 1..Len(store[STORAGE_KEY].v) : RecordOk(store[STORAGE_KEY].v[i])

\* C3: every step leaves only records that have a non-empty id and meet the
\* required-field constraints (quantity an integer >= 1), in the collection
\* and in the persisted blob, and a submission that fails validation changes
\* neither the collection nor the store.
C3_OnlyValidRecords ==
    [][/\ AllRecordsOk'
       /\ (Ran("saleFormSubmit") \/ Ran("editFormSubmit")) /\ last'.res = "invalid"
            => sales' = sales /\ store' = store]_vars

\* C4: after loadFromLocalStorage ran on a blob that is absent, unparseable or
\* no list, `sales` is the empty list, and no operation raises an error.
C4_LoadAlwaysUsable ==
    /\ (pc = "loaded" /\ store[STORAGE_KEY].k # "array") =>
            (salesIsArray /\ sales = <<>>)
    /\ last.res # "throw"

\* C5: updateSale with an id that matches no record of the collection raises
\* no error, changes neither the collection nor the store, and leaves no
\* record with that id.
C5_UpdateUnknownIdIsNoOp ==
    [][(/\ Ran("editFormSubmit")
        /\ last'.res # "invalid"
        /\ salesIsArray
        /\ last'.id \notin IdsOf(sales))
         => /\ last'.res # "throw"
            /\ sales' = sales
            /\ store' = store
            /\ last'.id \notin IdsOf(sales')]_vars

\* C5 witness: an edit was submitted for an id that is not in a non-empty
\* collection.
C5_Witness ==
    /\ last.op = "editFormSubmit"
    /\ last.res = "notfound"
    /\ last.id \notin IdsOf(sales)
    /\ Len(sales) >= 1

RECURSIVE Without(_, _)
\* list without the records whose id is id, the others in their order.
Without(list, id) ==
    IF list = <<>> THEN <<>>
    ELSE IF Head(list).id = id THEN Without(Tail(list), id)
         ELSE <<Head(list)>> \o Without(Tail(list), id)

\* C6: deleteSale(id) leaves the collection without the record(s) whose id is
\* id, every other record unchanged and in the same order; when no record has
\* the id the collection is unchanged; no error is raised.
C6_DeleteRemovesOnlyTheMatch ==
    [][(Ran("deleteSale") /\ salesIsArray)
         => /\ last'.res # "throw"
            /\ sales' = Without(sales, last'.id)
            /\ (last'.id \notin IdsOf(sales) => sales' = sales)]_vars

\* C6 witness: deleteSale ran with an id no record of a non-empty collection has.
C6_Witness ==
    /\ last.op = "deleteSale"
    /\ last.res = "nomatch"
    /\ last.id # NoId
    /\ Len(sales) >= 1

\* C7: addSale appends exactly one record, whose id differs from the id of
\* every record already in the collection, and leaves the earlier records as
\* they were.
C7_AddAppendsFreshId ==
    [][(Ran("saleFormSubmit") /\ last'.res = "added")
         => /\ Len(sales') = Len(sales) + 1
            /\ SubSeq(sales', 1, Len(sales)) = sales
            /\ sales'[Len(sales')].id \notin IdsOf(sales)]_vars

\* C8: updateSale(id, data) with an id of the collection puts the supplied
\* fields plus that id in the place of a record with that id, and changes no
\* other record, no record's id and not the length.
C8_UpdateReplacesWholeRecord ==
    [][(/\ Ran("editFormSubmit")
        /\ last'.res # "invalid"
        /\ salesIsArray
        /\ last'.id \in IdsOf(sales))
         => /\ Len(sales') = Len(sales)
            /\ \A j \in 1..Len(sales) : sales'[j].id = sales[j].id
            /\ \E idx \in 1..Len(sales) :
                 /\ sales[idx].id = last'.id
                 /\ \A j \in 1..Len(sales) : j # idx => sales'[j] = sales[j]
                 /\ \E f \in Forms :
                      /\ FormValid(f)
                      /\ sales'[idx] = WithId(FormData(f), last'.id)]_vars

\* C8 witness: a record of a two-record collection was replaced by the data
\* of the other form.
C8_Witness ==
    /\ last.op = "editFormSubmit"
    /\ last.res = "updated"
    /\ Len(sales) = 2
    /\ \E i \in 1..Len(sales) :
         sales[i].id = last.id /\ sales[i] = WithId(FormData(FormB), last.id)

\* C9: a run of migrateOldData that follows an earlier run leaves the
\* collection and every store key as it found them.
C9_SecondMigrationIsNoOp ==
    [][(migrateRan # "never" /\ pc = "loaded")
         => /\ sales' = sales
            /\ salesIsArray' = salesIsArray
            /\ store' = store]_vars

\* C9 witness: migrateOldData has returned a second time, and the collection
\* holds a record the first run migrated.
C9_Witness ==
    /\ migrateRan = "again"
    /\ pc = "migrated"
    /\ \E i \in 1..Len(sales) : sales[i].notes = "Migrated from old journal"

MigratedFieldsOk(obj, rec) ==
    /\ rec.customerType =
         (IF "result" \in DOMAIN obj /\ obj.result = "returningcustomers"
          THEN "returning" ELSE "new")
    /\ rec.unitPrice =
         (IF ParseFloat(OrEmpty(obj, "pnl")) = <<>> THEN 0
          ELSE Abs(ParseFloat(OrEmpty(obj, "pnl"))[1]))
    /\ rec.quantity = 2
    /\ rec.discount = 0
    /\ rec.itemName = "Sale"
    /\ rec.costPerUnit = <<>>

\* C11 as stated: the map gives one record per legacy item, with the fields
\* above and the date of the item's `launchDate`, today's date when the item
\* has no `launchDate`.
C11_DateFromLaunchDate ==
    last.op = "migrate" =>
        /\ Len(last.res) = Len(last.id)
        /\ \A i \in 1..Len(last.id) :
             /\ MigratedFieldsOk(last.id[i], last.res[i])
             /\ last.res[i].date =
                  (IF "launchDate" \in DOMAIN last.id[i] /\ last.id[i].launchDate # ""
                   THEN last.id[i].launchDate ELSE Today)

\* C11 amended: the map gives one record per legacy item, in the items'
\* order, with customerType "returning" exactly for result
\* "returningcustomers", unitPrice the absolute value of the parsed pnl (0 for
\* a pnl that is no number), quantity 1, discount 0, itemName "Sale", no
\* costPerUnit, and the date of the item's `launchdate` (the key as the old
\* journal wrote it), today's date when the item has none; an item keyed
\* `launchDate` is dated today.
C11_DateFromLaunchdate ==
    last.op = "migrate" =>
        /\ Len(last.res) = Len(last.id)
        /\ \A i \in 1..Len(last.id) :
             /\ MigratedFieldsOk(last.id[i], last.res[i])
             /\ last.res[i].date =
                  (IF "launchdate" \in DOMAIN last.id[i] /\ last.id[i].launchdate # ""
                   THEN last.id[i].launchdate ELSE Today)
             /\ last.id[i] = LegacyC =>
                  /\ last.res[i].date = "2024-05-01"
                  /\ last.res[i].customerType = "returning"
                  /\ last.res[i].unitPrice = 300
             /\ last.id[i] = LegacyCamel => last.res[i].date = Today

\* C11 witness: Scenario C in both spellings was migrated in one run.
C11_Witness ==
    /\ last.op = "migrate"
    /\ last.id = <<LegacyC, LegacyCamel>>
    /\ last.res[1].unitPrice = 300
    /\ last.res[1].date = "2024-05-01"
    /\ last.res[2].date = Today

\* A field that is present and numeric: a number, or text that denotes one.
IsNumeric(v) == v.t = "number" \/ (v.t = "string" /\ v.s \in NumericTexts \ {""})

\* The number a field of a record stands for, 0 when it is missing or no number.
Amount(sale, key) ==
    IF ~IsNumeric(Get(sale, key)) THEN 0
    ELSE IF Get(sale, key).t = "number" THEN Get(sale, key).n
         ELSE NumberOf(Get(sale, key).s)

\* quantity * unitPrice - discount
ExpectedRevenue(sale) ==
    Mul(Amount(sale, "quantity"), Amount(sale, "unitPrice")) - Amount(sale, "discount")

\* C12: lineRevenue is quantity*unitPrice - discount, a missing or non-numeric
\* field counting as 0; lineProfit is quantity*(unitPrice - costPerUnit) -
\* discount when costPerUnit is present and numeric (0 included), and equals
\* lineRevenue otherwise; two units at 500 give revenue 1000, profit 1000
\* without a cost and profit 600 with a cost of 200.
C12_RevenueAndProfit ==
    /\ last.op = "lineRevenue" => last.res = ExpectedRevenue(last.id)
    /\ last.op = "lineProfit" =>
         last.res =
            (IF IsNumeric(Get(last.id, "costPerUnit"))
             THEN Mul(Amount(last.id, "quantity"),
                      Amount(last.id, "unitPrice") - Amount(last.id, "costPerUnit"))
                    - Amount(last.id, "discount")
             ELSE lineRevenue(last.id))
    /\ (last.op = "lineRevenue" /\ last.id = SoapObject) => last.res = 2000
    /\ (last.op = "lineProfit" /\ last.id = SoapObject) => last.res = 1200
    /\ last.op = "lineProfit" =>
         lineProfit([SoapObject EXCEPT !.costPerUnit = Str("")]) = 2000

\* C12 witness: lineProfit was called on a record with a numeric cost and a
\* discount, and took both off.
C12_Witness ==
    /\ last.op = "lineProfit"
    /\ last.id = TextObject
    /\ last.res = 800
    /\ lineRevenue(last.id) = 1400

\* The day a date text names, as the number yyyymmdd.
DayNumber(date) ==
    CASE date = "2024-05-01" -> 20240501
      [] date = "2025-01-01" -> 20250101
      [] date = "2025-01-02" -> 20250102
      [] date = "2025-10-24" -> 20251024

\* The record meets every criterion that is set, the text search aside.
MeetsCriteria(sale, controls) ==
    /\ controls.dateFrom # "" => DayNumber(sale.date) >= DayNumber(controls.dateFrom)
    /\ controls.dateTo # "" => DayNumber(sale.date) <= DayNumber(controls.dateTo)
    /\ controls.customerType # "all" => sale.customerType = controls.customerType
    /\ controls.payment # "all" => sale.paymentMethod = controls.payment

\* C13: applyFilters returns, in their order, exactly the records that are on
\* or after dateFrom when it is set, on or before dateTo when it is set, of
\* the customer type unless it is "all", of the payment method unless it is
\* "all" (and that the text search keeps); with "all", "all", no date bound
\* and no search text it returns every record of the input.
C13_KeepsExactlyTheMatches ==
    last.op = "applyFilters" =>
        /\ last.res =
             SelectSeq(sales, LAMBDA sale :
                /\ MeetsCriteria(sale, last.id)
                /\ SearchKeeps(sale, getFilters(last.id)))
        /\ last.id = DefaultControls => last.res = sales

\* C13 witness: with both date bounds on one day, the record of that day was
\* kept and the record of the next day dropped.
C13_Witness ==
    /\ last.op = "applyFilters"
    /\ last.id = [DefaultControls EXCEPT !.dateFrom = "2025-01-01", !.dateTo = "2025-01-01"]
    /\ sales = <<SoapObject, TextObject>>
    /\ last.res = <<SoapObject>>

\* needle is a substring of hay.
IsSubstring(needle, hay) ==
    \E i \in 1..(Len(hay) + 1) : \E j \in (i - 1)..Len(hay) : SubSeq(hay, i, j) = needle

\* The places of list whose records the filter callback keeps.
KeptAt(list, controls) ==
    {i \in 1..Len(list) : Keeps(list[i], getFilters(controls))}

\* A record with its item name and notes in lower case.
Lowered(sale) ==
    [key \in DOMAIN sale |->
        IF key \in {"itemName", "notes"} THEN ToLowerCase(sale[key]) ELSE sale[key]]

\* C14 as stated: with a non-empty search text a record is kept exactly when
\* the lower-cased search text is a substring of the lower-cased item name
\* followed directly by the notes (a missing one counting as empty); an empty
\* search text keeps every record.
C14_SubstringOfConcatenation ==
    last.op = "applyFilters" =>
        last.res =
            SelectSeq(sales, LAMBDA sale :
                /\ MeetsCriteria(sale, last.id)
                /\ last.id.search # "" =>
                     IsSubstring(ToLowerCase(last.id.search),
                                 ToLowerCase(OrEmpty(sale, "itemName")
                                                \o OrEmpty(sale, "notes"))))

\* C14 amended: the search text is lower-cased and trimmed; when what is left
\* is non-empty a record is kept exactly when that is a substring of the
\* lower-cased item name, one blank, and the lower-cased notes (a missing one
\* counting as empty), and when nothing is left every record is kept; the
\* records kept are the same whatever the letter case of the search text and
\* of the records' text.
C14_SubstringOfSpacedText ==
    last.op = "applyFilters" =>
        /\ last.res =
             SelectSeq(sales, LAMBDA sale :
                /\ MeetsCriteria(sale, last.id)
                /\ TrimText(ToLowerCase(last.id.search)) # "" =>
                     IsSubstring(TrimText(ToLowerCase(last.id.search)),
                                 ToLowerCase(OrEmpty(sale, "itemName")) \o " "
                                    \o ToLowerCase(OrEmpty(sale, "notes"))))
        /\ KeptAt(sales, last.id)
             = KeptAt([i \in 1..Len(sales) |-> Lowered(sales[i])],
                      [last.id EXCEPT !.search = ToLowerCase(last.id.search)])

\* C14 witness: a search text in mixed case with blanks around it kept the
\* record that has the word in capitals in its notes and dropped a record
\* without it.
C14_Witness ==
    /\ last.op = "applyFilters"
    /\ last.id = [DefaultControls EXCEPT !.search = " SoAP "]
    /\ sales = <<TextObject, OddCostObject>>
    /\ last.res = <<TextObject>>

RECURSIVE RevenueOf(_)
\* The sum of lineRevenue over the records of list.
RevenueOf(list) ==
    IF list = <<>> THEN 0 ELSE lineRevenue(Head(list)) + RevenueOf(Tail(list))

RECURSIVE ProfitOf(_)
\* The sum of lineProfit over the records of list.
ProfitOf(list) ==
    IF list = <<>> THEN 0 ELSE lineProfit(Head(list)) + ProfitOf(Tail(list))

\* C15: calculateSummary returns newCount + retCount equal to the number of
\* records, newCount the number of records whose customerType is "new",
\* retCount the number of all others (an unexpected customerType included),
\* and totalRev and totalProf the sums of lineRevenue and lineProfit over the
\* records.
C15_SummaryCountsAndTotals ==
    last.op = "calculateSummary" =>
        /\ last.res.newCount + last.res.retCount = Len(last.id)
        /\ last.res.newCount =
             Cardinality({i \in 1..Len(last.id) : last.id[i].customerType = "new"})
        /\ last.res.retCount =
             Cardinality({i \in 1..Len(last.id) : last.id[i].customerType # "new"})
        /\ last.res.totalRev = RevenueOf(last.id)
        /\ last.res.totalProf = ProfitOf(last.id)

\* C15 witness: a summary over a "new" record and a record of a customer
\* type the forms do not offer counted one of each and added up the lines.
C15_Witness ==
    /\ last.op = "calculateSummary"
    /\ last.id = <<SoapObject, BareObject>>
    /\ last.res = [totalRev |-> 2000, totalProf |-> 1200, newCount |-> 1, retCount |-> 1]

\* ── Claims about the handlers, continued (Spec) ───────────────────────────

\* C16: a render (renderAll on a filter change and at the end of init(), with
\* its filtering, its two summaries and its sort) and an export leave the
\* collection, its records and their order, and every store key as they
\* were, whatever the filter controls hold and whether or not any record
\* passes them.
C16_ReadOnlyOperationsChangeNothing ==
    [][(Ran("renderAll") \/ Ran("exportCSV") \/ Ran("init"))
         => /\ sales' = sales
            /\ salesIsArray' = salesIsArray
            /\ store' = store]_vars

\* C16 witness: a render has sorted a filtered list that was out of order,
\* and the collection still holds its two records in the order they were
\* added, as does the blob.
C16_Witness ==
    /\ last.op = "renderAll"
    /\ last.res = "sorted"
    /\ Len(sales) = 2
    /\ ~InOrder(sales)
    /\ store[STORAGE_KEY] = JsonStringify(sales)

====
